---- MODULE Spec2Model ----
(***************************************************************************)
(* Specification extraction and refinement (PlannerAgent), the multi-stage *)
(* generation pipeline and the extension dispatch (OrchestratorAgent), and *)
(* the file tools (code_generation.py) of the full-stack agent system.     *)
(*                                                                         *)
(* Python values are modelled as follows.                                  *)
(*  - A str is a TLA+ string when it is only compared (names, types, JSON  *)
(*    scalars) and a sequence of tokens when it is concatenated or         *)
(*    searched (stage payloads, exception messages, report entries).       *)
(*  - A dict with a fixed set of possible keys is a record over all of     *)
(*    them; the value Absent marks a key that is not in the dict and Null  *)
(*    a key that is present with the value None.                           *)
(*  - A JSON member that may be a list or something else is a record       *)
(*    [t, v]: t is its JSON type and v the list (<<>> unless t = "list").  *)
(*  - The report (results) is a function from its keys to its entries.     *)
(* The text-generation collaborator only returns a value or raises an      *)
(* Exception; BaseException (KeyboardInterrupt, SystemExit) is not part of *)
(* the model.                                                              *)
(***************************************************************************)
EXTENDS Integers, Sequences, FiniteSets, TLC

VARIABLES
    pc,             \* position of the run: NotStarted, planner, analyzed, refined, a stage, Completed, Raised
    description,    \* create_from_description's argument, as its whitespace-delimited words
    specification,  \* the value analyze_description returned to create_from_description
    analysis,       \* which path analyze_description took (its log line), "none" before it ran
    project_name,   \* create_fullstack_app's parameters
    resource_name,
    fields,
    include_tests,
    include_docker,
    add_database,
    results,        \* create_fullstack_app's results dict / the returned report
    calls,          \* the generator methods invoked so far, in order
    raised,         \* the invoked generator methods that raised, with the message
    escaped,        \* the call whose exception reached the caller of the run, "none" if none
    refinement,     \* the last refine_specification call: its path and the value it returned
    extensions,     \* the extend_application calls so far, in order
    tree,           \* the files on disk: location -> content
    dirs,           \* the directories on disk
    last,           \* the last call of a file tool and what it returned
    tool_calls,     \* the number of file tool calls so far
    has_database,   \* the has_database arguments of the generate_docker_compose calls so far
    resources_dropped \* how many resources of the specification create_from_description did not pass on

vars == <<pc, description, specification, analysis, project_name, resource_name,
          fields, include_tests, include_docker, add_database, results, calls,
          raised, escaped, refinement, extensions, tree, dirs, last, tool_calls,
          has_database, resources_dropped>>

\* The state of the operations that are not part of a generation run.
session == <<refinement, extensions, tree, dirs, last, tool_calls>>

\* What the orchestrator passed on to the stages, and what it left out.
passed == <<has_database, resources_dropped>>

---------------------------------------------------------------------------
(* Bounds and sample inputs *)

\* Longest "resources" list the collaborator's JSON holds.
MaxResources == 2

\* The longest sequence of extend_application calls.
MaxExtensions == 2

\* The longest sequence of file tool calls.
MaxToolCalls == 2

\* The longest files_json array.
MaxBatch == 3

Absent == "<absent>"
Null == "<null>"

IsStr(x) == x \notin {Absent, Null}

\* "if flag:" on a JSON scalar
Truthy(x) == x \notin {"false", Null, Absent}

List(s) == [t |-> "list", v |-> s]
NoList(t) == [t |-> t, v |-> <<>>]

Field(n, ty) == [name |-> n, type |-> ty]

Resource(n, fs) == [name |-> n, fields |-> fs]

\* Resource dicts as the collaborator may write them: with complete fields, with
\* a field that lacks its name or its type or has a type outside the primitive
\* set, without "fields", with an empty or a null "fields", without a name, with
\* a null name.
ResourceSamples ==
    { Resource("Post", List(<<Field("title", "str"), Field("content", Absent)>>)),
      Resource("User", List(<<Field(Absent, "int"), Field("price", "varchar")>>)),
      Resource("Post", NoList("absent")),
      Resource("Task", List(<<>>)),
      Resource("Post", NoList("null")),
      Resource(Absent, List(<<Field("title", "str")>>)),
      Resource(Null, List(<<Field("title", "str")>>)) }

RECURSIVE SeqsUpTo(_, _)
SeqsUpTo(S, n) ==
    IF n = 0 THEN {<<>>}
    ELSE LET shorter == SeqsUpTo(S, n - 1)
         IN  shorter \cup {Append(s, e) : s \in {q \in shorter : Len(q) = n - 1}, e \in S}

ResourcesSamples ==
    {List(s) : s \in SeqsUpTo(ResourceSamples, MaxResources)}
        \cup {NoList("absent"), NoList("null"), NoList("number")}

TechPrefs(t, b, f, d) == [t |-> t, backend |-> b, frontend |-> f, database |-> d]

TechSamples ==
    { TechPrefs("absent", Absent, Absent, Absent),
      TechPrefs("null", Absent, Absent, Absent),
      TechPrefs("dict", "django", Absent, Absent) }

\* include_tests, include_docker, add_database as the collaborator may write them.
FlagSamples ==
    {<<a, b, c>> : a \in {"true", "false"}, b \in {"true", "false"}, c \in {"true", "false"}}
        \cup {<<Absent, Absent, Absent>>, <<Null, Absent, "true">>}

SpecObject(pn, rs, tp, fl) ==
    [project_name |-> pn, resources |-> rs, tech_preferences |-> tp,
     include_tests |-> fl[1], include_docker |-> fl[2], add_database |-> fl[3]]

EmptyObject ==
    SpecObject(Absent, NoList("absent"), TechPrefs("absent", Absent, Absent, Absent),
               <<Absent, Absent, Absent>>)

\* The JSON objects of the collaborator: every "resources" sample with and without
\* a project name (the other members missing), and every combination of the
\* technology and flag samples on three of the "resources" samples.
SpecObjects ==
    {SpecObject(pn, rs, EmptyObject.tech_preferences, <<Absent, Absent, Absent>>) :
        pn \in {"blog-platform", Absent}, rs \in ResourcesSamples}
    \cup
    {SpecObject("blog-platform", List(s), tp, fl) :
        s \in SeqsUpTo({r \in ResourceSamples : r.name \in {"Task", Null}}, 1),
        tp \in TechSamples, fl \in FlagSamples}

\* What the analysis task's collaborator call produces: an exception, a value that
\* is not a str, or a text. A text is JSON of an object, JSON of an array, or no
\* JSON; it comes bare ("none"), between fence lines ("lines": first line ```json
\* or ```, last line ```), or with the fences on the text's own line ("inline").
Response(k, w, s, o) == [kind |-> k, wrap |-> w, syntax |-> s, obj |-> o]

Responses ==
    {Response("raise", "none", "invalid", EmptyObject),
     Response("nonstring", "none", "invalid", EmptyObject)}
        \cup {Response("text", w, s, EmptyObject) :
                  w \in {"none", "lines", "inline"}, s \in {"invalid", "array"}}
        \cup {Response("text", "none", "object", o) : o \in SpecObjects}
        \cup {Response("text", w, "object", SpecObject(Absent, rs, EmptyObject.tech_preferences,
                                                       <<Absent, Absent, Absent>>)) :
                  w \in {"lines", "inline"}, rs \in ResourcesSamples}

DescriptionSamples ==
    { <<"Build", "a", "blog">>, <<"A", "Post", "for", "each", "USER">>,
      <<"posts", "and", "tasks">>, <<"task", "item">>, <<>> }

NoDescription == <<"<none>">>

NoSpec == [EmptyObject EXCEPT !.project_name = "<none>"]

\* Texts as token sequences.
Payloads == { <<"ok">>, <<"Error: ", "boom">> }
Messages == { <<"boom">> }

Outcome(k, t) == [kind |-> k, text |-> t]

Outcomes ==
    {Outcome("return", p) : p \in Payloads} \cup {Outcome("raise", m) : m \in Messages}

\* str(e) of the AttributeError that resource_name.lower() raises on None.
AttributeErrorText == <<"'NoneType' object has no attribute 'lower'">>

ManualArgs ==
    [project_name : {"Blog Platform"}, resource_name : {"Post"},
     fields : {<<Field("title", "str")>>, <<>>},
     include_tests : BOOLEAN, include_docker : BOOLEAN, add_database : BOOLEAN]

EmptyDict == [k \in {} |-> <<>>]

\* d[k] = v
SetItem(d, k, v) == [x \in DOMAIN d \cup {k} |-> IF x = k THEN v ELSE d[x]]

---------------------------------------------------------------------------
(* PlannerAgent *)

\* str.lower() on the words of the descriptions.
Lower(w) ==
    CASE w = "Build" -> "build"
      [] w = "A" -> "a"
      [] w = "Post" -> "post"
      [] w = "USER" -> "user"
      [] OTHER -> w

\* str.capitalize() on the resource keywords.
Capitalize(w) ==
    CASE w = "user" -> "User"
      [] w = "post" -> "Post"
      [] w = "product" -> "Product"
      [] w = "article" -> "Article"
      [] w = "task" -> "Task"
      [] w = "item" -> "Item"
      [] OTHER -> w

\* The keywords with "post" looked for first.
resource_keywords_post_first == <<"post", "user", "product", "article", "task", "item">>

resource_keywords == <<"user", "post", "product", "article", "task", "item">>

DefaultTechPreferences == TechPrefs("dict", "fastapi", "react", "sqlite")

\* A fallback specification without any resource.
create_fallback_specification_empty(d) ==
    [project_name |-> "my-app",
     resources |-> List(<<>>),
     tech_preferences |-> DefaultTechPreferences,
     include_tests |-> "true", include_docker |-> "true", add_database |-> "false"]

\* The fallback specification: the first keyword of resource_keywords that is one
\* of the lowered words of the description names the resource, "Item" if none is.
create_fallback_specification(d) ==
    LET words == {Lower(d[i]) : i \in DOMAIN d}
        hits == {k \in DOMAIN resource_keywords : resource_keywords[k] \in words}
        name == IF hits = {} THEN "Item"
                ELSE Capitalize(resource_keywords[CHOOSE k \in hits : \A j \in hits : k <= j])
    IN  [project_name |-> "my-app",
         resources |-> List(<<Resource(name,
                                List(<<Field("id", "int"), Field("name", "str"),
                                       Field("description", "str"),
                                       Field("created_at", "date")>>))>>),
         tech_preferences |-> DefaultTechPreferences,
         include_tests |-> "true", include_docker |-> "true", add_database |-> "false"]

\* "if key not in spec or spec[key] is None: spec[key] = default_value"
Merge(value, default) == IF value \in {Absent, Null} THEN default ELSE value

MergeMember(member, default) == IF member.t \in {"absent", "null"} THEN default ELSE member

\* "if 'name' not in field ... if 'type' not in field"
ValidateField(f) ==
    [name |-> IF f.name = Absent THEN "unknown" ELSE f.name,
     type |-> IF f.type = Absent THEN "str" ELSE f.type]

DefaultFields == <<Field("id", "int"), Field("created_at", "date")>>

\* One turn of the loop over the resources. A resource whose "fields" is null
\* makes the inner loop raise TypeError.
ValidateResource(r) ==
    LET fs == IF r.fields.t = "absent" THEN List(DefaultFields) ELSE r.fields
    IN  [raises |-> fs.t # "list",
         resource |-> Resource(r.name, List([i \in DOMAIN fs.v |-> ValidateField(fs.v[i])]))]

\* _validate_specification on a parsed JSON object: [raises, spec]. It raises
\* TypeError when "resources" is not iterable or a "fields" is not.
validate_specification(spec) ==
    LET resources == MergeMember(spec.resources, List(<<>>))
        validated == [i \in DOMAIN resources.v |-> ValidateResource(resources.v[i])]
    IN  [raises |-> resources.t # "list" \/ \E i \in DOMAIN validated : validated[i].raises,
         spec |-> [project_name |-> Merge(spec.project_name, "my-fullstack-app"),
                   resources |-> List([i \in DOMAIN validated |-> validated[i].resource]),
                   tech_preferences |-> MergeMember(spec.tech_preferences, DefaultTechPreferences),
                   include_tests |-> Merge(spec.include_tests, "true"),
                   include_docker |-> Merge(spec.include_docker, "true"),
                   add_database |-> Merge(spec.add_database, "false")]]

\* The cleaning of the collaborator's text: strip(), then the fence lines are cut
\* off when the text has more than two lines. What is left parses as JSON or not.
Parse(response) ==
    IF response.wrap = "inline" THEN "invalid" ELSE response.syntax

\* The log line after validation reads r['name'] of every resource: KeyError when
\* a resource has no name.
LogRaises(spec) == \E i \in DOMAIN spec.resources.v : spec.resources.v[i].name = Absent

Analysis(path, spec, raises) == [path |-> path, spec |-> spec, raises |-> raises]

\* analyze_description with a validation failure answered by the merged defaults
\* instead of the fallback built from the description.
analyze_description_defaults(d, response) ==
    LET fallback == create_fallback_specification(d)
        validated == validate_specification(response.obj)
        defaults == validate_specification(EmptyObject).spec
    IN  IF response.kind = "raise" THEN Analysis("collaborator_raised", fallback, FALSE)
        ELSE IF response.kind = "nonstring" THEN Analysis("not_text", fallback, FALSE)
        ELSE IF Parse(response) = "invalid" THEN Analysis("json_error", fallback, FALSE)
        ELSE IF Parse(response) = "array" THEN Analysis("validate_raised", defaults, FALSE)
        ELSE IF validated.raises THEN Analysis("validate_raised", defaults, FALSE)
        ELSE IF LogRaises(validated.spec) THEN Analysis("log_raised", fallback, FALSE)
        ELSE Analysis("ok", validated.spec, FALSE)

\* analyze_description: [path, spec, raises]. path is the handler that produced the
\* value, raises whether an exception leaves the method.
analyze_description(d, response) ==
    LET fallback == create_fallback_specification(d)
        validated == validate_specification(response.obj)
    IN  IF response.kind = "raise" THEN Analysis("collaborator_raised", fallback, FALSE)
        ELSE IF response.kind = "nonstring" THEN Analysis("not_text", fallback, FALSE)
        ELSE IF Parse(response) = "invalid" THEN Analysis("json_error", fallback, FALSE)
        ELSE IF Parse(response) = "array" THEN Analysis("validate_raised", fallback, FALSE)
        ELSE IF validated.raises THEN Analysis("validate_raised", fallback, FALSE)
        ELSE IF LogRaises(validated.spec) THEN Analysis("log_raised", fallback, FALSE)
        ELSE Analysis("ok", validated.spec, FALSE)

\* What the refinement task's collaborator call produces: the answers of the
\* analysis task whose JSON object has at most one resource.
RefinementResponses == {r \in Responses : Len(r.obj.resources.v) <= 1}

NoResponse == Response("none", "none", "invalid", EmptyObject)

\* A refine_specification call: the handler that produced the value (path), the
\* collaborator's answer, the caller's dict as it was passed (input) and as the
\* call left it (after), the value returned (result), and whether an exception
\* leaves the method.
Refinement(path, response, input, after, result, raises) ==
    [path |-> path, response |-> response, input |-> input, after |-> after,
     result |-> result, raises |-> raises]

NoRefinement == Refinement("none", NoResponse, NoSpec, NoSpec, NoSpec, FALSE)

\* refine_specification whose except clause returns what validation had built
\* of the refined specification when it raised.
refine_specification_partial(spec, response) ==
    LET validated == validate_specification(response.obj)
        Failed(path) == Refinement(path, response, spec, spec, spec, FALSE)
    IN  IF response.kind = "raise" THEN Failed("collaborator_raised")
        ELSE IF response.kind = "nonstring" THEN Failed("not_text")
        ELSE IF Parse(response) = "invalid" THEN Failed("json_error")
        ELSE IF Parse(response) = "array" THEN Failed("validate_raised")
        ELSE IF validated.raises
             THEN Refinement("validate_raised", response, spec, spec, validated.spec, FALSE)
        ELSE Refinement("ok", response, spec, spec, validated.spec, FALSE)

\* refine_specification(specification, user_feedback). The task text is built
\* from json.dumps(specification) and the feedback before the try block; a
\* specification is a JSON value, so json.dumps returns. Inside the try block the
\* collaborator is called, its text cleaned and parsed as in analyze_description,
\* and the parsed object (not the caller's dict) is validated in place and
\* returned; "except Exception" returns the caller's dict.
refine_specification(spec, response) ==
    LET validated == validate_specification(response.obj)
        Failed(path) == Refinement(path, response, spec, spec, spec, FALSE)
    IN  IF response.kind = "raise" THEN Failed("collaborator_raised")
        ELSE IF response.kind = "nonstring" THEN Failed("not_text")
        ELSE IF Parse(response) = "invalid" THEN Failed("json_error")
        ELSE IF Parse(response) = "array" THEN Failed("validate_raised")
        ELSE IF validated.raises THEN Failed("validate_raised")
        ELSE Refinement("ok", response, spec, spec, validated.spec, FALSE)

---------------------------------------------------------------------------
(* File tools (code_generation.py)                                         *)
(*                                                                         *)
(* A file_path is a record [abs, segs]: whether the text starts with "/",  *)
(* and its segments between the slashes. A location on disk is the         *)
(* sequence of names from settings.OUTPUTS_DIR down to it; a location that *)
(* starts with ".." lies above OUTPUTS_DIR.                                *)

FilePath(abs, segs) == [abs |-> abs, segs |-> segs]

\* Paths the tools are called with: the five of test_improvements.py, the three
\* root-level files of the deployment stage, paths that leave the output root,
\* and paths whose extension does not fit their top-level directory.
PathSamples ==
    { FilePath(FALSE, <<"backend", "main.py">>),
      FilePath(FALSE, <<"frontend", "src", "App.js">>),
      FilePath(FALSE, <<"main.py">>),
      FilePath(FALSE, <<"backend">>),
      FilePath(FALSE, <<"backend", "app.js">>),
      FilePath(FALSE, <<"docker-compose.yml">>),
      FilePath(FALSE, <<"README.md">>),
      FilePath(FALSE, <<".gitignore">>),
      FilePath(FALSE, <<"..", "evil.py">>),
      FilePath(FALSE, <<"backend", "..", "..", "evil.py">>),
      FilePath(TRUE, <<"etc", "evil.py">>),
      FilePath(FALSE, <<"frontend", "main.py">>),
      FilePath(FALSE, <<"backend", "config.json">>),
      FilePath(FALSE, <<"backend", "Dockerfile">>) }

Contents == {"v1", "v2"}

ExpectedTypes == {"any", "python", "javascript", "config"}

\* A file name as the text before its last dot and the text from it on.
NameParts(name) ==
    CASE name = "main.py" -> <<"main", ".py">>
      [] name = "evil.py" -> <<"evil", ".py">>
      [] name = "App.js" -> <<"App", ".js">>
      [] name = "app.js" -> <<"app", ".js">>
      [] name = "config.json" -> <<"config", ".json">>
      [] name = "docker-compose.yml" -> <<"docker-compose", ".yml">>
      [] name = "README.md" -> <<"README", ".md">>
      [] name = ".gitignore" -> <<"", ".gitignore">>
      [] OTHER -> <<name, "">>

\* PurePath.name: the last segment, "" when there is none.
Name(p) == IF p.segs = <<>> THEN "" ELSE p.segs[Len(p.segs)]

\* PurePath.suffix: the text from the last dot of the name on, "" when the name
\* has no dot or only a leading one.
Suffix(p) ==
    LET np == NameParts(Name(p))
    IN  IF np[1] = "" THEN "" ELSE np[2]

\* str.endswith(ext) on the path text.
EndsWith(p, ext) == NameParts(Name(p))[2] = ext

\* str.startswith(dir + "/") on the path text.
StartsWith(p, dir) == ~p.abs /\ Len(p.segs) >= 2 /\ p.segs[1] = dir

\* PurePath.parts: the root "/" counts as a part.
Parts(p) == IF p.abs THEN <<"/">> \o p.segs ELSE p.segs

FrontendSuffixes == {".js", ".jsx", ".tsx", ".html", ".css"}

\* any(ext in path_lower for ext in [".js", ".jsx", ".tsx", ".html", ".css"]): a
\* substring test on the lowered path text, which ".json" passes too.
HasFrontendMark(p) ==
    \E i \in DOMAIN p.segs : NameParts(p.segs[i])[2] \in FrontendSuffixes \cup {".json"}

\* Where the operating system finds a relative path under OUTPUTS_DIR: each ".."
\* leaves the directory reached so far.
RECURSIVE Resolve(_)
Resolve(segs) ==
    IF segs = <<>> THEN <<>>
    ELSE LET front == Resolve(SubSeq(segs, 1, Len(segs) - 1))
             seg == segs[Len(segs)]
         IN  IF seg # ".." THEN Append(front, seg)
             ELSE IF front # <<>> /\ front[Len(front)] # ".."
                  THEN SubSeq(front, 1, Len(front) - 1)
                  ELSE Append(front, "..")

\* settings.OUTPUTS_DIR
OutputsDir == <<>>

Inside(loc) == loc = <<>> \/ loc[1] # ".."

\* validate_file_path that does not look at expected_type.
validate_file_path_any(p, expected_type) ==
    LET issues ==
            (IF Suffix(p) = "" THEN {"no_extension"} ELSE {})
            \cup (IF Len(Parts(p)) < 2 THEN {"root_level"} ELSE {})
            \cup (IF \/ StartsWith(p, "backend") /\ Suffix(p) \in FrontendSuffixes
                     \/ StartsWith(p, "frontend") /\ Suffix(p) = ".py"
                  THEN {"inconsistent"} ELSE {})
    IN  [valid |-> issues = {}, issues |-> issues]

\* validate_file_path(file_path, expected_type): the issues it collects; the
\* path is reported valid when there is none.
validate_file_path(p, expected_type) ==
    LET issues ==
            (IF Suffix(p) = "" THEN {"no_extension"} ELSE {})
            \cup (IF Len(Parts(p)) < 2 THEN {"root_level"} ELSE {})
            \cup (IF \/ expected_type = "python" /\ ~EndsWith(p, ".py")
                     \/ expected_type = "javascript"
                            /\ \A e \in {".js", ".jsx", ".ts", ".tsx"} : ~EndsWith(p, e)
                  THEN {"wrong_kind"} ELSE {})
            \cup (IF \/ StartsWith(p, "backend") /\ Suffix(p) \in FrontendSuffixes
                     \/ StartsWith(p, "frontend") /\ Suffix(p) = ".py"
                  THEN {"inconsistent"} ELSE {})
    IN  [valid |-> issues = {}, issues |-> issues]

\* Path.mkdir(parents=True, exist_ok=True) on the parent of the file: every
\* directory on the way exists afterwards.
MakeDirs(segs, ds) ==
    ds \cup {Resolve(SubSeq(segs, 1, k)) : k \in 1..(Len(segs) - 1)}

\* The early return for a missing extension, as a function of the disk.
NoExtensionAfterMkdir(p, t, ds) ==
    [status |-> "no_extension", warned |-> FALSE, tree |-> t, dirs |-> MakeDirs(p.segs, ds)]

\* "if not full_path.suffix: ... return": nothing on disk was touched.
NoExtension(p, t, ds) ==
    [status |-> "no_extension", warned |-> FALSE, tree |-> t, dirs |-> ds]

\* A depth test that every relative path passes.
RootLevelNever(p) == FALSE

\* "if len(full_path.relative_to(base_dir).parts) < 2"
RootLevel(p) == Len(p.segs) < 2

\* create_file_with_content(file_path, content) on the disk (t, ds): what it
\* returns (status), whether it logged the directory/extension warning, and
\* the disk afterwards. "no_extension" and "root_level" are the two early
\* returns; relative_to(base_dir) raises ValueError on an absolute path, which
\* "except Exception" turns into the returned error text.
create_file_with_content(p, content, t, ds) ==
    LET Rejected(status) == [status |-> status, warned |-> FALSE, tree |-> t, dirs |-> ds]
    IN  IF Suffix(p) = "" THEN NoExtension(p, t, ds)
        ELSE IF p.abs THEN Rejected("error")
        ELSE IF RootLevel(p) THEN Rejected("root_level")
        ELSE [status |-> "created",
              warned |-> \/ StartsWith(p, "backend") /\ HasFrontendMark(p)
                         \/ StartsWith(p, "frontend") /\ EndsWith(p, ".py"),
              tree |-> SetItem(t, Resolve(p.segs), content),
              dirs |-> MakeDirs(p.segs, ds)]

\* mkdir(parents=True, exist_ok=True) of the directory at segs.
MakeDir(segs, ds) ==
    ds \cup {Resolve(SubSeq(segs, 1, k)) : k \in 1..Len(segs)}

\* base_path and directories arguments of create_directory_structure: the
\* directories text is split at "," and each name stripped, so it is kept as
\* the sequence of the names, each one a sequence of path segments; the empty
\* text gives the one name "".
DirectorySamples ==
    { [base_path |-> <<"backend">>, directories |-> << <<"app">> >>],
      [base_path |-> <<"backend">>, directories |-> << <<"app">>, <<"tests">> >>],
      [base_path |-> <<"frontend">>, directories |-> << <<"src", "components">> >>],
      [base_path |-> <<"docs">>, directories |-> << <<>> >>] }

RECURSIVE MakeDirList(_, _, _, _)
MakeDirList(base_path, directories, n, ds) ==
    IF n = 0 THEN ds
    ELSE MakeDir(base_path \o directories[n], MakeDirList(base_path, directories, n - 1, ds))

\* A directory tool whose mkdir refuses a directory that exists.
create_directory_structure_exclusive(base_path, directories, ds) ==
    IF \E i \in DOMAIN directories : Resolve(base_path \o directories[i]) \in ds
    THEN [status |-> "error", dirs |-> ds]
    ELSE [status |-> "created",
          dirs |-> MakeDirList(base_path, directories, Len(directories), ds)]

\* create_directory_structure(base_path, directories) on the directories ds:
\* every name is created under base_path with its missing parents; a directory
\* that exists is left as it is.
create_directory_structure(base_path, directories, ds) ==
    [status |-> "created",
     dirs |-> MakeDirList(base_path, directories, Len(directories), ds)]

\* The last call of a file tool: its arguments and what it returned.
ToolCall(op, p, expected_type, content, status, issues, warned) ==
    [op |-> op, path |-> p, expected_type |-> expected_type, content |-> content,
     status |-> status, issues |-> issues, warned |-> warned]

NoToolCall == ToolCall("none", FilePath(FALSE, <<>>), "any", "", "none", {}, FALSE)

\* One element of the files_json array: t is "dict" for a JSON object; path is
\* the empty path when the object has no "path" or an empty one, and NumberPath
\* when its "path" is a number other than 0.
Entry(t, p, content) == [t |-> t, path |-> p, content |-> content]

EmptyPath == FilePath(FALSE, <<>>)

NumberPath == FilePath(FALSE, <<"<number>">>)

\* Elements that are no {path, content} object with a path the tools were
\* written for: a JSON string, an object without "path", an object whose
\* "path" is a number, and two paths whose extension does not fit their
\* top-level directory.
OddEntries ==
    { Entry("other", EmptyPath, ""),
      Entry("dict", EmptyPath, "v1"),
      Entry("dict", NumberPath, "v1"),
      Entry("dict", FilePath(FALSE, <<"backend", "app.js">>), "v1"),
      Entry("dict", FilePath(FALSE, <<"frontend", "main.py">>), "v1") }

\* The paths of the batches: two that the write accepts, one at root level and
\* one without extension.
BatchPaths ==
    { FilePath(FALSE, <<"backend", "main.py">>),
      FilePath(FALSE, <<"frontend", "src", "App.js">>),
      FilePath(FALSE, <<"main.py">>),
      FilePath(FALSE, <<"backend">>) }

GoodEntries ==
    << Entry("dict", FilePath(FALSE, <<"backend", "main.py">>), "v2"),
       Entry("dict", FilePath(FALSE, <<"frontend", "src", "App.js">>), "v1") >>

\* files_json values: text that is no JSON, JSON of an object, JSON arrays of
\* {path, content} objects with pairwise different paths, the contents
\* alternating from entry to entry, arrays of three elements with one of the
\* odd entries before, between or after two entries that the write accepts, and
\* one array with backend/app.js before an entry whose path is a number.
BatchSamples ==
    {[t |-> "invalid", v |-> <<>>], [t |-> "object", v |-> <<>>]}
    \cup
    {[t |-> "list", v |-> v] :
        v \in UNION {{ <<odd, GoodEntries[1], GoodEntries[2]>>,
                       <<GoodEntries[1], odd, GoodEntries[2]>>,
                       <<GoodEntries[1], GoodEntries[2], odd>> } : odd \in OddEntries}}
    \cup
    {[t |-> "list", v |-> << Entry("dict", FilePath(FALSE, <<"backend", "app.js">>), "v1"),
                            Entry("dict", NumberPath, "v1"), GoodEntries[1] >>]}
    \cup
    {[t |-> "list",
      v |-> [i \in DOMAIN s |-> Entry("dict", s[i], IF i % 2 = 1 THEN "v2" ELSE "v1")]] :
        s \in {q \in SeqsUpTo(BatchPaths, MaxBatch) :
                  \A i, j \in DOMAIN q : i # j => q[i] # q[j]}}

Failure(p, error) == [path |-> p, error |-> error]

UnknownPath == FilePath(FALSE, <<"unknown">>)

\* A loop body that gives up after the first entry that failed.
AttemptEntryUntilFailure(acc, e) ==
    IF acc.status # "summary" \/ acc.failed # <<>> THEN acc
    ELSE IF e.t # "dict"
    THEN [acc EXCEPT !.failed = Append(@, Failure(UnknownPath, "Invalid file entry format"))]
    ELSE IF e.path = EmptyPath
    THEN [acc EXCEPT !.failed = Append(@, Failure(UnknownPath, "Missing 'path' field"))]
    ELSE IF e.path = NumberPath
    THEN [acc EXCEPT !.status = "error"]
    ELSE LET r == create_file_with_content(e.path, e.content, acc.tree, acc.dirs)
             warnings == IF validate_file_path(e.path, "any").valid THEN acc.warnings
                         ELSE Append(acc.warnings, e.path)
         IN  IF r.status = "created"
             THEN [acc EXCEPT !.warnings = warnings, !.created = Append(@, e.path),
                              !.tree = r.tree, !.dirs = r.dirs]
             ELSE [acc EXCEPT !.warnings = warnings,
                              !.failed = Append(@, Failure(e.path, r.status))]

\* One turn of the loop of create_multiple_files over the entries, unless the
\* loop was left before: validate_file_path builds Path(file_path), which raises
\* TypeError when the path is not a str; the exception leaves the loop and
\* 'except Exception' returns the error text for the whole batch.
AttemptEntry(acc, e) ==
    IF acc.status # "summary" THEN acc
    ELSE IF e.t # "dict"
    THEN [acc EXCEPT !.failed = Append(@, Failure(UnknownPath, "Invalid file entry format"))]
    ELSE IF e.path = EmptyPath
    THEN [acc EXCEPT !.failed = Append(@, Failure(UnknownPath, "Missing 'path' field"))]
    ELSE IF e.path = NumberPath
    THEN [acc EXCEPT !.status = "error"]
    ELSE LET r == create_file_with_content(e.path, e.content, acc.tree, acc.dirs)
             warnings == IF validate_file_path(e.path, "any").valid THEN acc.warnings
                         ELSE Append(acc.warnings, e.path)
         IN  IF r.status = "created"
             THEN [acc EXCEPT !.warnings = warnings, !.created = Append(@, e.path),
                              !.tree = r.tree, !.dirs = r.dirs]
             ELSE [acc EXCEPT !.warnings = warnings,
                              !.failed = Append(@, Failure(e.path, r.status))]

RECURSIVE AttemptEntries(_, _, _)
AttemptEntries(entries, n, acc) ==
    IF n = 0 THEN acc
    ELSE AttemptEntry(AttemptEntries(entries, n - 1, acc), entries[n])

\* create_multiple_files(files_json) on the disk (t, ds): the summary it returns
\* (the created, failed and warned paths) or the error text for the whole
\* batch ("not_json", "not_array", "error"), which names no path, and the disk
\* afterwards, with the files written before the loop was left.
create_multiple_files(files, t, ds) ==
    LET start == [status |-> "summary", created |-> <<>>, failed |-> <<>>,
                  warnings |-> <<>>, tree |-> t, dirs |-> ds]
    IN  IF files.t = "invalid" THEN [start EXCEPT !.status = "not_json"]
        ELSE IF files.t # "list" THEN [start EXCEPT !.status = "not_array"]
        ELSE LET r == AttemptEntries(files.v, Len(files.v), start)
             IN  IF r.status = "summary" THEN r
                 ELSE [r EXCEPT !.created = <<>>, !.failed = <<>>, !.warnings = <<>>]

\* The last call when it is a create_multiple_files call.
BatchCall(files, r) ==
    [op |-> "batch", path |-> EmptyPath, expected_type |-> "any", content |-> "",
     status |-> r.status, issues |-> {}, warned |-> FALSE, entries |-> files.v,
     created |-> r.created, failed |-> r.failed, warnings |-> r.warnings]

---------------------------------------------------------------------------
(* OrchestratorAgent *)

\* f"Error: {str(e)}"
ErrorEntry(m) == <<"Error: ">> \o m

NoResourcesError == <<"Failed to identify resources from description">>

\* An early return that reports nothing.
NoResourcesReportEmpty == EmptyDict

\* {"error": "Failed to identify resources from description"}
NoResourcesReport == SetItem(EmptyDict, "error", NoResourcesError)

\* A try block whose except clause matches no exception of the stage.
CaughtNothing(o) == FALSE

\* "except Exception as e" of every try block of create_fullstack_app.
Caught(o) == o.kind = "raise"

\* What a generator method does once invoked: it returns the collaborator's
\* payload or raises the collaborator's exception; generate_backend,
\* generate_frontend and generate_backend_tests build their task text with
\* resource_name.lower() and raise AttributeError before the collaborator is
\* reached when the name is not a str.
GeneratorOutcomes(stage) ==
    IF stage \in {"backend", "frontend", "tests_backend"} /\ ~IsStr(resource_name)
    THEN {Outcome("raise", AttributeErrorText)}
    ELSE Outcomes

\* The block that follows each try block.
AfterTests == IF include_docker THEN "docker" ELSE "Completed"

\* The database block placed after the frontend block.
AfterFrontendDatabase == IF add_database THEN "database" ELSE AfterTests

AfterFrontend == IF include_tests THEN "tests_backend" ELSE AfterTests
AfterDatabase == "frontend"

\* A backend block that ends the run.
AfterBackendReturns == "Completed"

AfterBackend == IF add_database THEN "database" ELSE AfterDatabase
AfterDocker == "Completed"

\* The statement that follows a call of the try block of the tests: the second
\* call after the first, the end of the block after the second.
AfterBackendTests == "tests_frontend"

\* The first resource's data as create_fullstack_app's arguments, taken from the
\* last resource instead.
DispatchedResourceLast(spec) == spec.resources.v[Len(spec.resources.v)]

\* "first_resource = specification['resources'][0]"
DispatchedResource(spec) == spec.resources.v[1]

\* has_database set only when the database stage had not raised.
HasDatabaseArgumentIfAdded == add_database /\ \A r \in raised : r[1] # "database"

\* "has_database=add_database"
HasDatabaseArgument == add_database

\* '"Error" in str(result)' on a report entry.
HasErrorWord(result) == \E i \in DOMAIN result : result[i] \in {"Error: ", "Error"}

\* The status line of one component in the summary that ends create_fullstack_app.
StatusMark(result) == IF HasErrorWord(result) THEN "failed" ELSE "generated"

\* The summary of the completed run: the mark of every entry of the report.
summary == [component \in DOMAIN results |-> StatusMark(results[component])]

\* The key under which the except clause of a stage's try block stores the error.
ErrorKey(stage) ==
    IF stage \in {"tests_backend", "tests_frontend"} THEN "tests" ELSE stage

\* One generator call inside its try block: the call is logged, its payload is
\* stored under the stage's key and the block goes on (thenPc), or its exception is
\* stored by the except clause and the run goes on after the block (exceptPc).
TryCall(stage, o, thenPc, exceptPc) ==
    /\ calls' = Append(calls, stage)
    /\ IF o.kind = "return"
       THEN /\ results' = SetItem(results, stage, o.text)
            /\ raised' = raised
            /\ pc' = thenPc
            /\ escaped' = escaped
       ELSE /\ raised' = raised \cup {<<stage, o.text>>}
            /\ IF Caught(o)
               THEN /\ results' = SetItem(results, ErrorKey(stage), ErrorEntry(o.text))
                    /\ pc' = exceptPc
                    /\ escaped' = escaped
               ELSE /\ results' = results
                    /\ pc' = "Raised"
                    /\ escaped' = stage

\* extension_type values: the seven that extend_application knows, and others.
ExtensionTypes ==
    {"auth", "database", "form", "routing", "nginx", "k8s", "coverage",
     "graphql", "AUTH", ""}

\* extend_application with its "database" branch calling the deployment
\* generator's add_database_service.
ExtensionMethodDatabaseService(extension_type) ==
    CASE extension_type = "auth" -> <<"backend_agent.add_authentication">>
      [] extension_type = "database" -> <<"docker_agent.add_database_service">>
      [] extension_type = "form" -> <<"frontend_agent.add_form">>
      [] extension_type = "routing" -> <<"frontend_agent.add_routing">>
      [] extension_type = "nginx" -> <<"docker_agent.add_nginx_reverse_proxy">>
      [] extension_type = "k8s" -> <<"docker_agent.generate_k8s_config">>
      [] extension_type = "coverage" -> <<"test_agent.add_coverage_config">>
      [] OTHER -> <<>>

\* The if/elif chain of extend_application: the generator methods the branch of
\* extension_type calls, in order.
ExtensionMethod(extension_type) ==
    CASE extension_type = "auth" -> <<"backend_agent.add_authentication">>
      [] extension_type = "database" -> <<"backend_agent.add_database">>
      [] extension_type = "form" -> <<"frontend_agent.add_form">>
      [] extension_type = "routing" -> <<"frontend_agent.add_routing">>
      [] extension_type = "nginx" -> <<"docker_agent.add_nginx_reverse_proxy">>
      [] extension_type = "k8s" -> <<"docker_agent.generate_k8s_config">>
      [] extension_type = "coverage" -> <<"test_agent.add_coverage_config">>
      [] OTHER -> <<>>

\* f"Unknown extension type: {extension_type}"
UnknownExtension(extension_type) == <<"Unknown extension type: ", extension_type>>

\* extend_application with every branch in a try block like those of
\* create_fullstack_app: an exception becomes the returned text.
extend_application_contained(extension_type, o) ==
    LET invoked == ExtensionMethod(extension_type)
    IN  IF invoked = <<>>
        THEN [tag |-> extension_type, invoked |-> invoked, outcome |-> "none",
              kind |-> "return", text |-> UnknownExtension(extension_type)]
        ELSE [tag |-> extension_type, invoked |-> invoked, outcome |-> o.kind,
              kind |-> "return",
              text |-> IF o.kind = "raise" THEN ErrorEntry(o.text) ELSE o.text]

\* extend_application(project_path, extension_type, **kwargs) with the outcome o
\* of the generator method it calls, if it calls one: the methods invoked, what
\* the generator did (outcome), and the text returned or the message of the
\* exception that leaves the call (kind, text). Each incremental generator
\* method builds its task text from its arguments as they are and returns
\* run_task(task), which logs and re-raises; there is no try block on the way.
extend_application(extension_type, o) ==
    LET invoked == ExtensionMethod(extension_type)
    IN  IF invoked = <<>>
        THEN [tag |-> extension_type, invoked |-> invoked, outcome |-> "none",
              kind |-> "return", text |-> UnknownExtension(extension_type)]
        ELSE [tag |-> extension_type, invoked |-> invoked, outcome |-> o.kind,
              kind |-> o.kind, text |-> o.text]

Init ==
    /\ pc = "NotStarted"
    /\ description = NoDescription
    /\ specification = NoSpec
    /\ analysis = "none"
    /\ project_name = "<none>"
    /\ resource_name = "<none>"
    /\ fields = <<>>
    /\ include_tests = FALSE
    /\ include_docker = FALSE
    /\ add_database = FALSE
    /\ results = EmptyDict
    /\ calls = <<>>
    /\ raised = {}
    /\ escaped = "none"
    /\ refinement = NoRefinement
    /\ extensions = <<>>
    /\ tree = EmptyDict
    /\ dirs = {OutputsDir}
    /\ last = NoToolCall
    /\ tool_calls = 0
    /\ has_database = <<>>
    /\ resources_dropped = 0

\* create_from_description is called: it calls analyze_description, which waits for
\* the collaborator.
CreateFromDescription ==
    /\ pc = "NotStarted"
    /\ \E d \in DescriptionSamples : description' = d
    /\ pc' = "planner"
    /\ UNCHANGED <<specification, analysis, project_name, resource_name, fields,
                   include_tests, include_docker, add_database, results, calls,
                   raised, escaped>>
    /\ UNCHANGED session
    /\ UNCHANGED passed

\* The collaborator answers and analyze_description returns.
AnalyzeDescription ==
    /\ pc = "planner"
    /\ \E response \in Responses :
         LET a == analyze_description(description, response)
         IN  /\ analysis' = a.path
             /\ IF a.raises
                THEN /\ pc' = "Raised"
                     /\ escaped' = "planner"
                     /\ specification' = specification
                ELSE /\ pc' = "analyzed"
                     /\ escaped' = escaped
                     /\ specification' = a.spec
    /\ UNCHANGED <<description, project_name, resource_name, fields, include_tests,
                   include_docker, add_database, results, calls, raised>>
    /\ UNCHANGED session
    /\ UNCHANGED passed

\* The rest of create_from_description: the early return when there is no
\* resource, else the call of create_fullstack_app with the first resource, up to
\* its first try block. Nothing reads description or specification after the call.
DispatchSpecification ==
    /\ pc = "analyzed"
    /\ IF Len(specification.resources.v) = 0
       THEN /\ results' = NoResourcesReport
            /\ pc' = "Completed"
            /\ UNCHANGED <<description, specification, project_name, resource_name,
                           fields, include_tests, include_docker, add_database,
                           resources_dropped>>
       ELSE /\ project_name' = specification.project_name
            /\ resource_name' = DispatchedResource(specification).name
            /\ fields' = DispatchedResource(specification).fields.v
            /\ resources_dropped' = Len(specification.resources.v) - 1
            /\ include_tests' = Truthy(specification.include_tests)
            /\ include_docker' = Truthy(specification.include_docker)
            /\ add_database' = Truthy(specification.add_database)
            /\ results' = EmptyDict
            /\ pc' = "backend"
            /\ description' = NoDescription
            /\ specification' = NoSpec
    /\ UNCHANGED <<analysis, calls, raised, escaped, has_database>>
    /\ UNCHANGED session

\* create_fullstack_app is called directly (manual mode), up to its first try block.
CreateFullstackApp ==
    /\ pc = "NotStarted"
    /\ \E args \in ManualArgs :
         /\ project_name' = args.project_name
         /\ resource_name' = args.resource_name
         /\ fields' = args.fields
         /\ include_tests' = args.include_tests
         /\ include_docker' = args.include_docker
         /\ add_database' = args.add_database
    /\ results' = EmptyDict
    /\ pc' = "backend"
    /\ UNCHANGED <<description, specification, analysis, calls, raised, escaped>>
    /\ UNCHANGED session
    /\ UNCHANGED passed

params == <<description, specification, analysis, project_name, resource_name, fields,
            include_tests, include_docker, add_database>>

\* Step 1: generate_backend in its try block.
GenerateBackend ==
    /\ pc = "backend"
    /\ \E o \in GeneratorOutcomes("backend") : TryCall("backend", o, AfterBackend, AfterBackend)
    /\ UNCHANGED params
    /\ UNCHANGED session
    /\ UNCHANGED passed

\* Optional: add_database in its try block.
AddDatabase ==
    /\ pc = "database"
    /\ \E o \in GeneratorOutcomes("database") : TryCall("database", o, AfterDatabase, AfterDatabase)
    /\ UNCHANGED params
    /\ UNCHANGED session
    /\ UNCHANGED passed

\* Step 2: generate_frontend in its try block.
GenerateFrontend ==
    /\ pc = "frontend"
    /\ \E o \in GeneratorOutcomes("frontend") : TryCall("frontend", o, AfterFrontend, AfterFrontend)
    /\ UNCHANGED params
    /\ UNCHANGED session
    /\ UNCHANGED passed

\* Step 3, first half of the try block: the endpoints are built from
\* resource_name.lower(), which raises inside the block before any call when the
\* name is not a str; else generate_backend_tests is called.
GenerateBackendTests ==
    /\ pc = "tests_backend"
    /\ IF IsStr(resource_name)
       THEN \E o \in GeneratorOutcomes("tests_backend") :
                TryCall("tests_backend", o, AfterBackendTests, AfterTests)
       ELSE /\ results' = SetItem(results, ErrorKey("tests_backend"), ErrorEntry(AttributeErrorText))
            /\ pc' = AfterTests
            /\ UNCHANGED <<calls, raised, escaped>>
    /\ UNCHANGED params
    /\ UNCHANGED session
    /\ UNCHANGED passed

\* Step 3, second half of the same try block: generate_frontend_tests.
GenerateFrontendTests ==
    /\ pc = "tests_frontend"
    /\ \E o \in GeneratorOutcomes("tests_frontend") :
         TryCall("tests_frontend", o, AfterTests, AfterTests)
    /\ UNCHANGED params
    /\ UNCHANGED session
    /\ UNCHANGED passed

\* Step 4: generate_docker_compose in its try block, then the summary and the return.
GenerateDockerCompose ==
    /\ pc = "docker"
    /\ \E o \in GeneratorOutcomes("docker") : TryCall("docker", o, AfterDocker, AfterDocker)
    /\ has_database' = Append(has_database, HasDatabaseArgument)
    /\ UNCHANGED params
    /\ UNCHANGED session
    /\ UNCHANGED resources_dropped

\* refine_specification is called on the specification that analyze_description
\* returned, and returns.
RefineSpecification ==
    /\ pc = "analyzed"
    /\ \E response \in RefinementResponses :
         LET r == refine_specification(specification, response)
         IN  /\ refinement' = r
             /\ specification' = r.after
             /\ IF r.raises
                THEN pc' = "Raised" /\ escaped' = "refine_specification"
                ELSE pc' = "refined" /\ escaped' = escaped
    /\ UNCHANGED <<description, analysis, project_name, resource_name, fields,
                   include_tests, include_docker, add_database, results, calls, raised>>
    /\ UNCHANGED <<extensions, tree, dirs, last, tool_calls>>
    /\ UNCHANGED passed

\* The variables no file tool touches.
run == <<pc, description, specification, analysis, project_name, resource_name,
         fields, include_tests, include_docker, add_database, results, calls,
         raised, escaped, refinement, extensions, has_database, resources_dropped>>

\* create_file_with_content is called and returns.
CreateFileWithContent ==
    /\ tool_calls < MaxToolCalls
    /\ \E p \in PathSamples, content \in Contents :
         LET r == create_file_with_content(p, content, tree, dirs)
         IN  /\ tree' = r.tree
             /\ dirs' = r.dirs
             /\ last' = ToolCall("create", p, "any", content, r.status, {}, r.warned)
    /\ tool_calls' = tool_calls + 1
    /\ UNCHANGED run

\* validate_file_path is called and returns.
ValidateFilePath ==
    /\ tool_calls < MaxToolCalls
    /\ \E p \in PathSamples, expected_type \in ExpectedTypes :
         LET r == validate_file_path(p, expected_type)
         IN  last' = ToolCall("validate", p, expected_type, "",
                              IF r.valid THEN "valid" ELSE "invalid", r.issues, FALSE)
    /\ tool_calls' = tool_calls + 1
    /\ UNCHANGED <<tree, dirs>>
    /\ UNCHANGED run

\* create_multiple_files is called and returns.
\* The last call when it is a create_directory_structure call.
DirectoryCall(d, r) ==
    [op |-> "mkdirs", path |-> FilePath(FALSE, d.base_path), expected_type |-> "any",
     content |-> "", status |-> r.status, issues |-> {}, warned |-> FALSE,
     directories |-> d.directories]

CreateDirectoryStructure ==
    /\ tool_calls < MaxToolCalls
    /\ \E d \in DirectorySamples :
         LET r == create_directory_structure(d.base_path, d.directories, dirs)
         IN  /\ dirs' = r.dirs
             /\ last' = DirectoryCall(d, r)
    /\ tool_calls' = tool_calls + 1
    /\ UNCHANGED <<tree, run>>

CreateMultipleFiles ==
    /\ tool_calls < MaxToolCalls
    /\ \E files \in BatchSamples :
         LET r == create_multiple_files(files, tree, dirs)
         IN  /\ tree' = r.tree
             /\ dirs' = r.dirs
             /\ last' = BatchCall(files, r)
    /\ tool_calls' = tool_calls + 1
    /\ UNCHANGED run

\* extend_application is called on the orchestrator and returns or raises.
ExtendApplication ==
    /\ pc = "NotStarted"
    /\ Len(extensions) < MaxExtensions
    /\ \E extension_type \in ExtensionTypes, o \in Outcomes :
         LET e == extend_application(extension_type, o)
         IN  /\ extensions' = Append(extensions, e)
             /\ IF e.kind = "raise"
                THEN pc' = "Raised" /\ escaped' = e.invoked[1]
                ELSE pc' = pc /\ escaped' = escaped
    /\ UNCHANGED <<description, specification, analysis, project_name, resource_name,
                   fields, include_tests, include_docker, add_database, results,
                   calls, raised>>
    /\ UNCHANGED <<refinement, tree, dirs, last, tool_calls>>
    /\ UNCHANGED passed

Next ==
    \/ CreateFromDescription
    \/ AnalyzeDescription
    \/ DispatchSpecification
    \/ CreateFullstackApp
    \/ GenerateBackend
    \/ AddDatabase
    \/ GenerateFrontend
    \/ GenerateBackendTests
    \/ GenerateFrontendTests
    \/ GenerateDockerCompose

Spec == Init /\ [][Next]_vars

\* The planner used on its own: a description is analyzed, then the specification
\* is refined.
RefineNext ==
    \/ CreateFromDescription
    \/ AnalyzeDescription
    \/ RefineSpecification

RefineSpec == Init /\ [][RefineNext]_vars

\* The orchestrator used to extend an application, call after call.
ExtendNext == ExtendApplication

ExtendSpec == Init /\ [][ExtendNext]_vars

\* The file tools called one after the other on the same output directory.
ToolsNext ==
    \/ CreateFileWithContent
    \/ ValidateFilePath
    \/ CreateMultipleFiles
    \/ CreateDirectoryStructure

ToolsSpec == Init /\ [][ToolsNext]_vars

\* A call of the collaborator returns or raises: a step that is waiting for it is
\* eventually taken.
Progress ==
    \/ AnalyzeDescription
    \/ DispatchSpecification
    \/ GenerateBackend
    \/ AddDatabase
    \/ GenerateFrontend
    \/ GenerateBackendTests
    \/ GenerateFrontendTests
    \/ GenerateDockerCompose

FairSpec == Spec /\ WF_vars(Progress)

---------------------------------------------------------------------------
(* Properties *)

StageOrder ==
    <<"backend", "database", "frontend", "tests_backend", "tests_frontend", "docker">>

StageNames == {StageOrder[i] : i \in DOMAIN StageOrder}

Rank(stage) == CHOOSE i \in DOMAIN StageOrder : StageOrder[i] = stage

Invoked(stage) == \E i \in DOMAIN calls : calls[i] = stage

HasRaised(stage) == \E m \in Messages \cup {AttributeErrorText} : <<stage, m>> \in raised

\* The stages the flags of the run enable.
EnabledStages ==
    {"backend", "frontend"}
        \cup (IF add_database THEN {"database"} ELSE {})
        \cup (IF include_tests THEN {"tests_backend", "tests_frontend"} ELSE {})
        \cup (IF include_docker THEN {"docker"} ELSE {})

\* create_fullstack_app has returned its report.
PipelineCompleted == pc = "Completed" /\ "error" \notin DOMAIN results

\* The run is over: the report was returned or an exception reached the caller.
Over == pc \in {"Completed", "Raised"}

\* C1: with include_tests, include_docker and add_database all true, the returned
\* report has exactly the six keys backend, database, frontend, tests_backend,
\* tests_frontend, docker, whichever stages raised.
C1_SixKeys ==
    (PipelineCompleted /\ include_tests /\ include_docker /\ add_database)
        => DOMAIN results = StageNames

\* C2: every specification analyze_description returns has at least one resource,
\* every resource has at least one field, and every field has a name and a type.
C2_SpecificationValid ==
    pc = "analyzed" =>
        /\ Len(specification.resources.v) >= 1
        /\ \A i \in DOMAIN specification.resources.v :
             LET fs == specification.resources.v[i].fields.v
             IN  /\ Len(fs) >= 1
                 /\ \A j \in DOMAIN fs : IsStr(fs[j].name) /\ IsStr(fs[j].type)

\* C3: analyze_description never raises to its caller, and whenever the
\* collaborator raised, its text was not parsable JSON, or the validation of the
\* parsed value raised, the specification it returns is the fallback built from
\* the description.
C3_FallbackOnFailure ==
    /\ escaped # "planner"
    /\ (pc = "analyzed" /\ analysis # "ok")
           => specification = create_fallback_specification(description)

C3_Witness ==
    /\ pc = "analyzed"
    /\ analysis = "validate_raised"
    /\ description = <<"posts", "and", "tasks">>
    /\ specification.resources.v[1].name = "Item"

\* C4: when the backend stage raised, no exception reaches the caller, and the run
\* ends with the frontend stage invoked and a frontend entry in the report.
C4_FrontendAfterBackendFailure ==
    HasRaised("backend") =>
        /\ escaped = "none"
        /\ Over => (Invoked("frontend") /\ "frontend" \in DOMAIN results)

C4_Witness ==
    /\ pc = "Completed"
    /\ HasRaised("backend")
    /\ Invoked("frontend")
    /\ "frontend" \in DOMAIN results

\* C5: for any two enabled stages A before B in the stage order, B is invoked even
\* when A raised (a failure of backend-tests does not stop frontend-tests).
C5_EveryStageContained ==
    PipelineCompleted =>
        \A a \in EnabledStages, b \in EnabledStages :
            (Rank(a) < Rank(b) /\ HasRaised(a)) => Invoked(b)

\* C6: when a stage raised with message m, the final report holds an error entry
\* carrying m under that stage's own name, and every invoked stage has an entry.
C6_ErrorUnderStageName ==
    PipelineCompleted =>
        /\ \A e \in raised : e[1] \in DOMAIN results /\ results[e[1]] = ErrorEntry(e[2])
        /\ \A i \in DOMAIN calls : calls[i] \in DOMAIN results

\* C7: when the specification has no resource, the run returns a report with
\* exactly one entry, the top-level error, and no generator is ever invoked.
C7_NoResourcesNoStages ==
    /\ [][(pc = "analyzed" /\ Len(specification.resources.v) = 0)
             => (pc' = "Completed" /\ DOMAIN results' = {"error"} /\ calls' = <<>>)]_vars
    /\ [](("error" \in DOMAIN results \/ (pc = "Completed" /\ specification # NoSpec))
             => (pc = "Completed" /\ DOMAIN results = {"error"} /\ calls = <<>>
                 /\ Len(specification.resources.v) = 0))

C7_Witness ==
    /\ pc = "Completed"
    /\ analysis = "ok"
    /\ Len(specification.resources.v) = 0
    /\ DOMAIN results = {"error"}
    /\ calls = <<>>

\* C8: the stages are invoked one at a time in the order backend, database,
\* frontend, backend-tests, frontend-tests, docker: no stage is invoked twice or
\* out of order, only enabled stages are invoked, and a stage is invoked only when
\* every stage invoked before it has returned or raised.
C8_FixedOrder ==
    /\ \A i \in DOMAIN calls, j \in DOMAIN calls :
           i < j => Rank(calls[i]) < Rank(calls[j])
    /\ \A i \in DOMAIN calls :
           /\ calls[i] \in EnabledStages
           /\ calls[i] \in DOMAIN results \/ HasRaised(calls[i])
    /\ pc \in StageNames => \A i \in DOMAIN calls : Rank(calls[i]) < Rank(pc)

C8_Witness ==
    /\ pc = "Completed"
    /\ calls = StageOrder

\* C9: no exception of a stage or of the planner reaches the caller, the report of
\* a completed run is a non-empty map, and every started run reaches Completed
\* when each collaborator call returns or raises.
C9_AlwaysCompletes ==
    /\ [](escaped = "none" /\ pc # "Raised")
    /\ [](pc = "Completed" => DOMAIN results # {})
    /\ (pc # "NotStarted") ~> (pc = "Completed")

C9_Witness ==
    /\ pc = "Completed"
    /\ analysis = "collaborator_raised"
    /\ HasRaised("backend")
    /\ HasRaised("docker")

\* C10: the database stage is invoked iff add_database, the two test stages iff
\* include_tests, the docker stage iff include_docker, and backend and frontend in
\* every run.
C10_StagesFollowFlags ==
    PipelineCompleted => \A stage \in StageNames : Invoked(stage) <=> stage \in EnabledStages

\* C11: a refine_specification call whose refinement fails (the collaborator
\* raises, its answer is not a text, the text is not JSON, or validation raises)
\* returns the caller's specification as it was passed; no call raises and no
\* call changes the caller's specification.
RefinementFails(response) ==
    \/ response.kind # "text"
    \/ Parse(response) # "object"
    \/ validate_specification(response.obj).raises

C11_RefineReturnsInput ==
    refinement.path # "none" =>
        /\ ~refinement.raises
        /\ pc # "Raised"
        /\ refinement.after = refinement.input
        /\ specification = refinement.input
        /\ RefinementFails(refinement.response) => refinement.result = refinement.input

\* A refinement failed in validation, on a specification that the analysis had
\* extracted, and the caller got that specification back.
C11_Witness ==
    /\ refinement.path = "validate_raised"
    /\ refinement.response.syntax = "object"
    /\ analysis = "ok"
    /\ refinement.result = specification
    /\ specification.project_name = "blog-platform"

\* C12: each extend_application call with one of the seven recognised tags
\* invokes exactly one generator method, the one the tag stands for; a call
\* with any other tag invokes no generator and returns the text that names the
\* tag instead of raising.
TagMethod ==
    [auth |-> "backend_agent.add_authentication",
     database |-> "backend_agent.add_database",
     form |-> "frontend_agent.add_form",
     routing |-> "frontend_agent.add_routing",
     nginx |-> "docker_agent.add_nginx_reverse_proxy",
     k8s |-> "docker_agent.generate_k8s_config",
     coverage |-> "test_agent.add_coverage_config"]

C12_OneGeneratorPerTag ==
    \A i \in DOMAIN extensions :
        LET e == extensions[i]
        IN  IF e.tag \in DOMAIN TagMethod
            THEN e.invoked = <<TagMethod[e.tag]>>
            ELSE /\ e.invoked = <<>>
                 /\ e.kind = "return"
                 /\ e.text = <<"Unknown extension type: ", e.tag>>

\* An unknown tag was answered with its error text and the next call, with the
\* tag database, invoked the backend generator.
C12_Witness ==
    /\ Len(extensions) = 2
    /\ extensions[1].tag = "graphql"
    /\ extensions[1].invoked = <<>>
    /\ extensions[2].tag = "database"
    /\ extensions[2].invoked = <<"backend_agent.add_database">>

\* C13: validate_file_path reports a path valid exactly when the path has an
\* extension, has at least one directory above the file, has an extension of
\* the expected kind and has an extension that fits its top-level directory;
\* backend/main.py as python and frontend/src/App.js as javascript are valid,
\* main.py has the root-level issue, backend the no-extension issue and
\* backend/app.js as python the wrong-kind issue.
KindMatches(p, expected_type) ==
    /\ expected_type = "python" => Suffix(p) = ".py"
    /\ expected_type = "javascript" => Suffix(p) \in {".js", ".jsx", ".ts", ".tsx"}

Consistent(p) ==
    /\ StartsWith(p, "backend") => Suffix(p) \notin {".js", ".jsx", ".tsx", ".html", ".css"}
    /\ StartsWith(p, "frontend") => Suffix(p) # ".py"

C13_ValidateFilePath ==
    last.op = "validate" =>
        /\ last.status = "valid" <=>
               /\ Suffix(last.path) # ""
               /\ Len(Parts(last.path)) >= 2
               /\ KindMatches(last.path, last.expected_type)
               /\ Consistent(last.path)
        /\ last.path = FilePath(FALSE, <<"backend", "main.py">>)
               /\ last.expected_type = "python" => last.status = "valid"
        /\ last.path = FilePath(FALSE, <<"frontend", "src", "App.js">>)
               /\ last.expected_type = "javascript" => last.status = "valid"
        /\ last.path = FilePath(FALSE, <<"main.py">>) =>
               last.status = "invalid" /\ "root_level" \in last.issues
        /\ last.path = FilePath(FALSE, <<"backend">>) =>
               last.status = "invalid" /\ "no_extension" \in last.issues
        /\ last.path = FilePath(FALSE, <<"backend", "app.js">>)
               /\ last.expected_type = "python" =>
               last.status = "invalid" /\ "wrong_kind" \in last.issues

\* frontend/src/App.js was checked against the python kind and reported invalid
\* for its kind alone.
C13_Witness ==
    /\ last.op = "validate"
    /\ last.path = FilePath(FALSE, <<"frontend", "src", "App.js">>)
    /\ last.expected_type = "python"
    /\ last.status = "invalid"
    /\ last.issues = {"wrong_kind"}

\* C14: a create_file_with_content call with a path that has no extension or no
\* directory above the file returns an error text and changes neither the
\* files nor the directories on disk; a call with a relative path that has
\* both, such as backend/main.py, returns success and the file holds the
\* content.
AtRootLevel(p) == ~p.abs /\ Len(p.segs) < 2

RootAllowList == {<<"docker-compose.yml">>, <<"README.md">>, <<".gitignore">>}

C15_RootAllowList ==
    last.op = "create" /\ AtRootLevel(last.path) =>
        (last.status = "created" <=> last.path.segs \in RootAllowList)

\* C16: validate_file_path with no expected kind reports a path valid exactly
\* when create_file_with_content accepts it.
C16_ValidIffAccepted ==
    last.op = "create" =>
        (last.status = "created" <=> validate_file_path(last.path, "any").valid)

\* C16, amended: for a relative path, create_file_with_content accepts every
\* path that validate_file_path with no expected kind reports valid, and the
\* only issue validation has with a path the write accepts is the extension
\* that does not fit the top-level directory.
C16_ValidImpliesAccepted ==
    last.op = "create" /\ ~last.path.abs =>
        LET v == validate_file_path(last.path, "any")
        IN  /\ v.valid => last.status = "created"
            /\ last.status = "created" => v.issues \subseteq {"inconsistent"}

\* backend/app.js was written although validation reports it invalid.
C16_Witness ==
    /\ last.op = "create"
    /\ last.path = FilePath(FALSE, <<"backend", "app.js">>)
    /\ last.status = "created"
    /\ validate_file_path(last.path, "any").issues = {"inconsistent"}

\* C17: a create_multiple_files call on n entries of which k have a path
\* without extension or at root level reports n - k files created and k
\* failed, and each of the n - k other files is on disk with its content,
\* wherever the k entries sit in the batch.
InvalidEntries(entries) ==
    {i \in DOMAIN entries : Suffix(entries[i].path) = "" \/ AtRootLevel(entries[i].path)}

C17_BatchPartialSuccess ==
    last.op = "batch" /\ last.status = "summary" =>
        LET n == Len(last.entries)
            k == Cardinality(InvalidEntries(last.entries))
        IN  /\ Len(last.created) = n - k
            /\ Len(last.failed) = k
            /\ \A i \in DOMAIN last.entries \ InvalidEntries(last.entries) :
                   /\ Resolve(last.entries[i].path.segs) \in DOMAIN tree
                   /\ tree[Resolve(last.entries[i].path.segs)] = last.entries[i].content

\* A batch of three entries whose first one is at root level: two files
\* created, one failed, both files on disk.
C17_Witness ==
    /\ last.op = "batch"
    /\ Len(last.entries) = 3
    /\ last.entries[1].path = FilePath(FALSE, <<"main.py">>)
    /\ Len(last.created) = 2
    /\ Len(last.failed) = 1
    /\ DOMAIN tree = {<<"backend", "main.py">>, <<"frontend", "src", "App.js">>}

\* C18: every file that create_file_with_content has created lies inside the
\* output root, whatever ".." segments or leading "/" the path has.
C18_InsideOutputRoot ==
    \A loc \in DOMAIN tree : Inside(loc)

\* C19: in every specification that analyze_description returns through
\* validation, the type of each field of each resource is one of the primitive
\* types (str, int, float, bool, date).
PrimitiveTypes == {"str", "int", "float", "bool", "date"}

C19_PrimitiveFieldTypes ==
    pc = "analyzed" /\ analysis = "ok" =>
        \A i \in DOMAIN specification.resources.v :
            \A j \in DOMAIN specification.resources.v[i].fields.v :
                specification.resources.v[i].fields.v[j].type \in PrimitiveTypes

\* C20: in every specification that analyze_description returns through
\* validation, no resource has an empty list of fields.
C20_NoEmptyFieldList ==
    pc = "analyzed" /\ analysis = "ok" =>
        \A i \in DOMAIN specification.resources.v :
            specification.resources.v[i].fields.v # <<>>

\* C21: a run of create_from_description whose analysis failed (the collaborator
\* raised, or its answer could not be parsed or validated) is not ended by the
\* failure: the stages run, and the report of the completed run has no "error"
\* entry and has a backend and a frontend entry.
C21_ExtractionFailureNotSurfaced ==
    analysis \notin {"none", "ok"} =>
        /\ pc # "Raised"
        /\ pc = "Completed" =>
               /\ "error" \notin DOMAIN results
               /\ {"backend", "frontend"} \subseteq DOMAIN results
               /\ calls # <<>>
               /\ calls[1] = "backend"
               /\ \E i \in DOMAIN calls : calls[i] = "frontend"

\* The collaborator's text was no JSON and the run completed with the entries of
\* all five stages of the fallback specification.
C21_Witness ==
    /\ analysis = "json_error"
    /\ pc = "Completed"
    /\ DOMAIN results = {"backend", "frontend", "tests_backend", "tests_frontend", "docker"}

\* C24: the specification that analyze_description returns when extraction
\* fails has exactly one resource, named after the first keyword of the list
\* user, post, product, article, task, item (capitalised) that is one of the
\* words of the description whatever their case, and Item if none is; its
\* fields are id, name, description, created_at and its flags are include_tests
\* true, include_docker true, add_database false.
FallbackKeywords == <<"user", "post", "product", "article", "task", "item">>

FallbackNames == <<"User", "Post", "Product", "Article", "Task", "Item">>

Occurs(k, d) == \E i \in DOMAIN d : Lower(d[i]) = FallbackKeywords[k]

ExpectedFallbackName(d) ==
    IF \A k \in DOMAIN FallbackKeywords : ~Occurs(k, d) THEN "Item"
    ELSE FallbackNames[CHOOSE k \in DOMAIN FallbackKeywords :
                           Occurs(k, d) /\ \A j \in 1..(k - 1) : ~Occurs(j, d)]

C24_FallbackSpecification ==
    pc = "analyzed" /\ analysis \notin {"none", "ok"} =>
        /\ specification.resources.t = "list"
        /\ Len(specification.resources.v) = 1
        /\ specification.resources.v[1].name = ExpectedFallbackName(description)
        /\ specification.resources.v[1].fields =
               List(<<Field("id", "int"), Field("name", "str"),
                      Field("description", "str"), Field("created_at", "date")>>)
        /\ specification.include_tests = "true"
        /\ specification.include_docker = "true"
        /\ specification.add_database = "false"

\* Extraction failed on a description that has the word Post before the word
\* USER: the fallback resource is User.
C24_Witness ==
    /\ pc = "analyzed"
    /\ analysis = "collaborator_raised"
    /\ description = <<"A", "Post", "for", "each", "USER">>
    /\ specification.resources.v[1].name = "User"

\* C25: in every specification that analyze_description returns, the
\* tech_preferences mapping has the three keys backend, frontend and database.
C25_TechPreferencesComplete ==
    pc = "analyzed" =>
        /\ specification.tech_preferences.t = "dict"
        /\ specification.tech_preferences.backend # Absent
        /\ specification.tech_preferences.frontend # Absent
        /\ specification.tech_preferences.database # Absent

\* C26: in the summary of a completed run, a stage's entry is marked as failed
\* if and only if the stage raised.
C26_FailedIffRaised ==
    pc = "Completed" /\ "error" \notin DOMAIN results =>
        \A stage \in StageNames \cap DOMAIN results :
            summary[stage] = "failed" <=> HasRaised(stage)

\* C28: the docker stage is called with has_database equal to add_database,
\* whatever the database stage did.
C28_DockerToldOfDatabase ==
    IF Invoked("docker") THEN has_database = <<add_database>> ELSE has_database = <<>>

\* The database stage raised, its entry is an error, and the docker stage was
\* called with has_database true.
C28_Witness ==
    /\ HasRaised("database")
    /\ "database" \in DOMAIN results
    /\ results["database"] = ErrorEntry(<<"boom">>)
    /\ has_database = <<TRUE>>

\* C29: create_from_description starts create_fullstack_app with the name and
\* the fields of the first resource and with nothing of the other resources:
\* the run starts in the state that the specification cut down to its first
\* resource gives, and the stages leave the name and the fields as they are.
FirstOnly(spec) == [spec EXCEPT !.resources = List(<<spec.resources.v[1]>>)]

StartsAsFirstOnly ==
    pc = "analyzed" /\ pc' = "backend" =>
        LET first == FirstOnly(specification)
        IN  /\ project_name' = first.project_name
            /\ resource_name' = first.resources.v[1].name
            /\ fields' = first.resources.v[1].fields.v
            /\ include_tests' = Truthy(first.include_tests)
            /\ include_docker' = Truthy(first.include_docker)
            /\ add_database' = Truthy(first.add_database)
            /\ results' = EmptyDict
            /\ calls' = <<>>
            /\ raised' = {}

StagesKeepArguments ==
    pc \in StageNames =>
        /\ resource_name' = resource_name
        /\ fields' = fields
        /\ project_name' = project_name

C29_FirstResourceOnly == [][StartsAsFirstOnly /\ StagesKeepArguments]_vars

\* A run on a specification with two resources completed: the stages ran for
\* Post, the first one, and User was left out.
C29_Witness ==
    /\ pc = "Completed"
    /\ analysis = "ok"
    /\ resources_dropped = 1
    /\ resource_name = "Post"
    /\ Invoked("backend")
    /\ Invoked("frontend")

\* C30: when the generator method of a recognised tag raises, the exception
\* leaves extend_application with its message: no text is returned in its
\* place and the caller's sequence of calls ends there.
C30_ExtensionFailurePropagates ==
    \A i \in DOMAIN extensions :
        extensions[i].outcome = "raise" =>
            /\ extensions[i].kind = "raise"
            /\ extensions[i].text \in Messages
            /\ i = Len(extensions)
            /\ pc = "Raised"
            /\ escaped = extensions[i].invoked[1]

\* After a call that returned, the nginx generator raised and the exception
\* reached the caller.
C30_Witness ==
    /\ Len(extensions) = 2
    /\ extensions[1].kind = "return"
    /\ extensions[2].tag = "nginx"
    /\ extensions[2].kind = "raise"
    /\ escaped = "docker_agent.add_nginx_reverse_proxy"

\* The paths of the failure records of a batch summary.
FailedPaths(failed) == {failed[i].path : i \in DOMAIN failed}

Listed(paths) == {paths[i] : i \in DOMAIN paths}

\* The extension of p does not fit its top-level directory.
Inconsistent(p) ==
    \/ StartsWith(p, "backend") /\ Suffix(p) \in {".js", ".jsx", ".tsx", ".html", ".css"}
    \/ StartsWith(p, "frontend") /\ Suffix(p) = ".py"

\* C22: a write whose extension is inconsistent with its top-level directory is
\* only warned about: create_file_with_content creates the file and returns
\* success, and create_multiple_files, given a JSON array, lists the path under
\* created and under warnings, not under failed.
C22_InconsistentOnlyWarned ==
    /\ last.op = "create" /\ Inconsistent(last.path) =>
           /\ last.status = "created"
           /\ last.warned
           /\ Resolve(last.path.segs) \in DOMAIN tree
           /\ tree[Resolve(last.path.segs)] = last.content
    /\ last.op = "batch" /\ last.status \notin {"not_json", "not_array"} =>
           \A i \in DOMAIN last.entries :
               last.entries[i].t = "dict" /\ Inconsistent(last.entries[i].path) =>
                   /\ last.entries[i].path \in Listed(last.created)
                   /\ last.entries[i].path \in Listed(last.warnings)
                   /\ last.entries[i].path \notin FailedPaths(last.failed)

\* C23: for every JSON array given to create_multiple_files the call returns the
\* created/failed/warnings summary and every entry is in it, as created or as
\* failed, whatever the entries before it were.
C23_EveryEntryAttempted ==
    last.op = "batch" /\ last.status \notin {"not_json", "not_array"} =>
        /\ last.status = "summary"
        /\ Len(last.created) + Len(last.failed) = Len(last.entries)

\* The previous call and this call are the same successful call.
SameCreate ==
    /\ last.op = "create" /\ last'.op = "create"
    /\ last.status = "created"
    /\ last'.path = last.path
    /\ last'.content = last.content

SameDirectories ==
    /\ last.op = "mkdirs" /\ last'.op = "mkdirs"
    /\ last.status = "created"
    /\ last'.path = last.path
    /\ last'.directories = last.directories

Idempotent ==
    tool_calls' # tool_calls /\ (SameCreate \/ SameDirectories) =>
        /\ last'.status = "created"
        /\ tree' = tree
        /\ dirs' = dirs

\* C27: create_file_with_content called again with the same valid path and
\* content, and create_directory_structure called again with the same
\* arguments, return success again and leave the files and directories as the
\* first call left them.
C27_WritesIdempotent == [][Idempotent]_vars

\* backend/app and backend/tests were created by two create_directory_structure
\* calls with the same arguments.
C27_Witness ==
    /\ tool_calls = 2
    /\ last.op = "mkdirs"
    /\ last.status = "created"
    /\ Len(last.directories) = 2
    /\ dirs = {OutputsDir, <<"backend">>, <<"backend", "app">>, <<"backend", "tests">>}
    /\ DOMAIN tree = {}

====
